---- MODULE Spec2Model ----
(***************************************************************************)
(* A model of src/app.py, the STL weight calculator.                       *)
(*                                                                         *)
(* Number representation.                                                  *)
(*  - Vertex coordinates are the float32 values numpy-stl stores in        *)
(*    Mesh.vectors.  The model takes integer-valued coordinates (whole     *)
(*    millimetres); every float32 operation on them is modelled by the     *)
(*    exact integer result rounded to 24 significant bits, ties to even    *)
(*    (f32), which is what IEEE-754 single precision does to an integer.   *)
(*  - A volume is carried in sixths of a cubic millimetre: the integer n   *)
(*    stands for the float n / 6.0 that calculate_stl_volume returns.      *)
(*  - A density is carried in units of 0.0001 g/mm^3 (131 for 0.0131).     *)
(*  - A weight is therefore carried in units of 1/60000 g.                 *)
(*  - A number formatted with f"{x:.4f}" is carried as the integer count   *)
(*    of its last decimal place (22 for "0.0022").                         *)
(***************************************************************************)
EXTENDS Integers, Sequences, FiniteSets

VARIABLES
    MATERIAL_DENSITIES,  \* the module-level dict, as a sequence of items
    g_mesh,              \* geometry harness: the mesh last measured
    g_before,            \* geometry harness: the mesh before the last change
    g_vol,               \* calculate_stl_volume(g_mesh)
    g_volBefore,         \* calculate_stl_volume(g_before)
    g_op,                \* the last change applied to the mesh
    g_closed,            \* g_mesh is closed and consistently wound
    w_volume,            \* weight harness: volume_mm3 of the last call
    w_material,          \* weight harness: material_name of the last call
    w_result,            \* weight harness: what calculate_weight did
    pc,                  \* main(): the statement the script run is at
    selected_material,   \* main(): the sidebar selectbox
    show_comparison,     \* main(): the sidebar checkbox
    uploaded_file,       \* main(): the file_uploader's value
    tmp_path,            \* main(): the temporary file: none, exists, deleted
    unlinks,             \* main(): os.unlink calls made in this run
    stl_mesh,            \* main(): the loaded mesh's vectors
    volume,              \* main(): calculate_stl_volume(stl_mesh)
    stats,               \* main(): the statistics create_3d_viewer returned
    weight_data,         \* main(): the rows of the detailed table
    materials,           \* create_comparison_chart: the bars' names
    weights,             \* create_comparison_chart: the bars' values
    calc,                \* main(): the quick calculator's inputs and outputs
    error,               \* main(): the exception caught, "none" if none
    assigned,            \* main(): the locals bound so far in this run
    rendered             \* main(): what this run has put on the page

gvars == <<g_mesh, g_before, g_vol, g_volBefore, g_op, g_closed>>

wvars == <<w_volume, w_material, w_result>>

pvars ==
    <<pc, selected_material, show_comparison, uploaded_file, tmp_path, unlinks,
      stl_mesh, volume, stats, weight_data, materials, weights, calc, error,
      assigned, rendered>>

vars == <<MATERIAL_DENSITIES, gvars, wvars, pvars>>

(***************************************************************************)
(* Bounds of the model.                                                    *)
(***************************************************************************)
MaxEdge == 2         \* edge lengths of the input solids: 1..MaxEdge
MaxSkew == 1         \* sideways offset of a tetrahedron's apex: 0..MaxSkew
MaxUploadEdge == 1   \* edge lengths of the uploaded cubes: 1..MaxUploadEdge
MaxTestVolume == 6   \* volumes passed to calculate_weight: -6..6
MaxCalcVolume == 3   \* the calculator's number_input: 0..MaxCalcVolume
ShiftExact == 1000   \* a translation that float32 still carries exactly
ShiftLossy == 5000   \* a translation whose products exceed 2^24

(***************************************************************************)
(* The material registry (src/app.py lines 141-152), in insertion order.   *)
(***************************************************************************)
StartupDensities ==
    << [key |-> "14K Gold",         value |-> 131],
       [key |-> "18K Gold",         value |-> 154],
       [key |-> "22K Gold",         value |-> 174],
       [key |-> "24K Gold",         value |-> 193],
       [key |-> "Silver (925)",     value |-> 104],
       [key |-> "Platinum (950)",   value |-> 214],
       [key |-> "Platinum (900)",   value |-> 204],
       [key |-> "Palladium",        value |-> 120],
       [key |-> "White Gold (18K)", value |-> 147],
       [key |-> "Rose Gold (18K)",  value |-> 150] >>

\* MATERIAL_COLORS (src/app.py lines 154-165).
MATERIAL_COLORS ==
    << [key |-> "14K Gold",         value |-> "#DAA520"],
       [key |-> "18K Gold",         value |-> "#FFD700"],
       [key |-> "22K Gold",         value |-> "#FFA500"],
       [key |-> "24K Gold",         value |-> "#FFD700"],
       [key |-> "Silver (925)",     value |-> "#C0C0C0"],
       [key |-> "Platinum (950)",   value |-> "#E5E4E2"],
       [key |-> "Platinum (900)",   value |-> "#E5E4E2"],
       [key |-> "Palladium",        value |-> "#CED0DD"],
       [key |-> "White Gold (18K)", value |-> "#F5F5F5"],
       [key |-> "Rose Gold (18K)",  value |-> "#B76E79"] >>

\* MATERIAL_INFO (src/app.py lines 167-178).
MATERIAL_INFO ==
    << [key |-> "14K Gold",
        value |-> "58.3% pure - Common for everyday jewelry"],
       [key |-> "18K Gold",
        value |-> "75.0% pure - Premium jewelry standard"],
       [key |-> "22K Gold",
        value |-> "91.7% pure - High-end, investment grade"],
       [key |-> "24K Gold",
        value |-> "99.9% pure - Pure gold, very soft"],
       [key |-> "Silver (925)",
        value |-> "92.5% pure - Sterling silver standard"],
       [key |-> "Platinum (950)",
        value |-> "95.0% pure - Luxury jewelry material"],
       [key |-> "Platinum (900)",
        value |-> "90.0% pure - Alternative platinum alloy"],
       [key |-> "Palladium",
        value |-> "95.0% pure - Lighter platinum alternative"],
       [key |-> "White Gold (18K)",
        value |-> "75.0% pure - Gold with white metals"],
       [key |-> "Rose Gold (18K)",
        value |-> "75.0% pure - Gold with copper"] >>

\* 1 troy ounce = 31.1035 g and 1 pennyweight = 1.55517 g, in 0.0001 g
\* and 0.00001 g.
TROY_OUNCE == 311035
PENNYWEIGHT == 155517

(***************************************************************************)
(* Python dicts as sequences of items, in insertion order.                 *)
(***************************************************************************)
\* list(d.keys())
keys(d) == [i \in 1..Len(d) |-> d[i].key]

\* k in d
contains(d, k) == \E i \in 1..Len(d) : d[i].key = k

\* d[k], for a key that is in d
getitem(d, k) == d[CHOOSE i \in 1..Len(d) : d[i].key = k].value

\* d.get(k, default)
get(d, k, default) == IF contains(d, k) THEN getitem(d, k) ELSE default

\* What a call did: returned a value, or raised.
Returned(v) == [raised |-> "none", value |-> v]
Raised(e) == [raised |-> e, value |-> 0]

\* calculate_weight falling back to the first material's density.
calculate_weight_default(volume_mm3, material_name) ==
    Returned(volume_mm3
             * get(MATERIAL_DENSITIES, material_name, MATERIAL_DENSITIES[1].value))

\* calculate_weight rounding the product down to whole units of 10.
calculate_weight_truncating(volume_mm3, material_name) ==
    IF contains(MATERIAL_DENSITIES, material_name)
    THEN Returned(10 * ((volume_mm3 * getitem(MATERIAL_DENSITIES, material_name))
                        \div 10))
    ELSE Raised("KeyError")

\* calculate_weight (src/app.py lines 189-191): the subscript raises KeyError
\* for a name that is not a key.
calculate_weight(volume_mm3, material_name) ==
    IF contains(MATERIAL_DENSITIES, material_name)
    THEN Returned(volume_mm3 * getitem(MATERIAL_DENSITIES, material_name))
    ELSE Raised("KeyError")

(***************************************************************************)
(* float32 arithmetic on integer values.                                   *)
(***************************************************************************)
Abs(x) == IF x < 0 THEN -x ELSE x

RECURSIVE Ulp(_)
\* The spacing of float32 values around the magnitude a: 1 below 2^24.
Ulp(a) == IF a < 2^24 THEN 1 ELSE 2 * Ulp(a \div 2)

\* Round to nearest float32, ties to even.
f32(x) ==
    LET a == Abs(x)
        u == Ulp(a)
        q == a \div u
        r == a % u
        up == (2 * r > u) \/ (2 * r = u /\ q % 2 = 1)
        m == IF up THEN (q + 1) * u ELSE q * u
    IN  IF x < 0 THEN -m ELSE m

fmul(x, y) == f32(x * y)
fsub(x, y) == f32(x - y)
fadd(x, y) == f32(x + y)

\* np.cross with the last component's subtraction written as an addition.
cross_sign_slip(B, C) ==
    << fsub(fmul(B[2], C[3]), fmul(B[3], C[2])),
       fsub(fmul(B[3], C[1]), fmul(B[1], C[3])),
       fadd(fmul(B[1], C[2]), fmul(B[2], C[1])) >>

\* np.cross(B, C) of two float32 3-vectors: each product and each
\* difference is one float32 ufunc call.
cross(B, C) ==
    << fsub(fmul(B[2], C[3]), fmul(B[3], C[2])),
       fsub(fmul(B[3], C[1]), fmul(B[1], C[3])),
       fsub(fmul(B[1], C[2]), fmul(B[2], C[1])) >>

\* np.dot(A, X) of two float32 3-vectors, accumulated left to right.
dot(A, X) ==
    fadd(fadd(fmul(A[1], X[1]), fmul(A[2], X[2])), fmul(A[3], X[3]))

RECURSIVE volume_sum(_, _)
\* The loop of calculate_stl_volume over the first n triangles: the running
\* Python float `volume` (a double, exact on the model's range).
volume_sum(mesh, n) ==
    IF n = 0 THEN 0
    ELSE LET triangle == mesh[n]
             A == triangle[1]
             B == triangle[2]
             C == triangle[3]
         IN  volume_sum(mesh, n - 1) + dot(A, cross(B, C))

\* The signed sum returned without abs().
calculate_stl_volume_signed(mesh) == volume_sum(mesh, Len(mesh))

\* abs(volume) / 6.0, in sixths of a cubic millimetre.
calculate_stl_volume(mesh) == Abs(volume_sum(mesh, Len(mesh)))

(***************************************************************************)
(* Meshes: sequences of triangles, a triangle a triple of points.          *)
(***************************************************************************)
Origin == <<0, 0, 0>>

\* The closed, consistently wound surface of the tetrahedron p0 p1 p2 p3.
Tetra(p0, p1, p2, p3) ==
    << <<p0, p1, p2>>, <<p0, p3, p1>>, <<p0, p2, p3>>, <<p1, p3, p2>> >>

Quad(a, b, c, d) == << <<a, b, c>>, <<a, c, d>> >>

\* The closed, consistently wound 12-triangle cube of edge e at corner o.
Cube(o, e) ==
    LET v(i, j, k) == <<o[1] + i * e, o[2] + j * e, o[3] + k * e>>
    IN  Quad(v(0,0,0), v(0,1,0), v(1,1,0), v(1,0,0))
        \o Quad(v(0,0,1), v(1,0,1), v(1,1,1), v(0,1,1))
        \o Quad(v(0,0,0), v(1,0,0), v(1,0,1), v(0,0,1))
        \o Quad(v(0,1,0), v(0,1,1), v(1,1,1), v(1,1,0))
        \o Quad(v(0,0,0), v(0,0,1), v(0,1,1), v(0,1,0))
        \o Quad(v(1,0,0), v(1,1,0), v(1,1,1), v(1,0,1))

Edges == 1..MaxEdge
Skews == 0..MaxSkew

\* The input solids: tetrahedra of either orientation, and cubes.
Shapes ==
    { Tetra(Origin, <<a, 0, 0>>, <<0, b, 0>>, <<x, y, c>>) :
        a \in Edges, b \in Edges, c \in Edges, x \in Skews, y \in Skews }
    \cup
    { Tetra(Origin, <<0, b, 0>>, <<a, 0, 0>>, <<x, y, c>>) :
        a \in Edges, b \in Edges, c \in Edges, x \in Skews, y \in Skews }
    \cup
    { Cube(Origin, e) : e \in Edges }

\* Translations along each axis and along the diagonal.
Translations ==
    UNION { { <<s, 0, 0>>, <<0, s, 0>>, <<0, 0, s>>, <<s, s, s>> } :
            s \in {ShiftExact, ShiftLossy} }

TranslatePoint(p, t) == <<p[1] + t[1], p[2] + t[2], p[3] + t[3]>>

Translated(m, t) ==
    [i \in 1..Len(m) |->
        <<TranslatePoint(m[i][1], t), TranslatePoint(m[i][2], t),
          TranslatePoint(m[i][3], t)>>]

\* Every triangle's vertex order reversed.
Reversed(m) == [i \in 1..Len(m) |-> <<m[i][3], m[i][2], m[i][1]>>]

\* One triangle's vertex order reversed: mixed winding.
ReversedAt(m, k) ==
    [i \in 1..Len(m) |->
        IF i = k THEN <<m[i][3], m[i][2], m[i][1]>> ELSE m[i]]

\* One triangle removed: an open mesh.
Without(m, k) == SubSeq(m, 1, k - 1) \o SubSeq(m, k + 1, Len(m))

(***************************************************************************)
(* Formatting and the functions main() calls.                              *)
(***************************************************************************)
\* The last-place counts f"{x:.Nf}" can print for x = n / d last-place units:
\* the nearest one; for an exact tie the double's own rounding error decides,
\* so either neighbour.
FormatChoices(n, d) ==
    LET q == n \div d
        r == n % d
    IN  IF 2 * r < d THEN {q}
        ELSE IF 2 * r > d THEN {q + 1}
        ELSE {q, q + 1}

AllPoints(mesh) == { mesh[i][j] : i \in 1..Len(mesh), j \in 1..3 }

AxisMin(P, a) == CHOOSE v \in { p[a] : p \in P } : \A p \in P : v <= p[a]

AxisMax(P, a) == CHOOSE v \in { p[a] : p \in P } : \A p \in P : v >= p[a]

\* get_mesh_statistics (src/app.py lines 193-203).  min() of an empty array
\* raises ValueError.  surface_area and center are not carried: they need a
\* square root and a mean.
get_mesh_statistics(mesh) ==
    LET all_points == AllPoints(mesh)
        min_coords == [a \in 1..3 |-> AxisMin(all_points, a)]
        max_coords == [a \in 1..3 |-> AxisMax(all_points, a)]
    IN  IF Len(mesh) = 0 THEN Raised("ValueError")
        ELSE Returned([num_triangles |-> Len(mesh),
                       min_coords |-> min_coords,
                       max_coords |-> max_coords,
                       dimensions |->
                           [a \in 1..3 |-> fsub(max_coords[a], min_coords[a])]])

\* create_3d_viewer (src/app.py lines 205-293): the statistics come first and
\* their exception leaves the function; the figure is three vertices per
\* triangle in the material's colour.
create_3d_viewer(mesh, vol, filename, material) ==
    LET r == get_mesh_statistics(mesh)
    IN  IF r.raised # "none" THEN r
        ELSE Returned([fig |-> [vertices |-> 3 * Len(mesh),
                                color |-> get(MATERIAL_COLORS, material, "#FFD700"),
                                title |-> filename],
                       stats |-> r.value])

RECURSIVE SortedByWeight(_, _)
\* The items of d, heaviest first.
SortedByWeight(d, n) ==
    IF n = 0 THEN <<>>
    ELSE LET rest == SortedByWeight(d, n - 1)
             k == Cardinality({ i \in 1..Len(rest) : rest[i].value >= d[n].value })
         IN  SubSeq(rest, 1, k) \o <<d[n]>> \o SubSeq(rest, k + 1, Len(rest))

\* create_comparison_chart with its bars sorted by weight.
create_comparison_chart_sorted(vol) ==
    LET d == SortedByWeight(MATERIAL_DENSITIES, Len(MATERIAL_DENSITIES))
    IN  Returned([x |-> keys(d),
                  y |-> [i \in 1..Len(d) |-> calculate_weight(vol, d[i].key).value],
                  colors |-> [i \in 1..Len(d) |-> getitem(MATERIAL_COLORS, d[i].key)]])

\* create_comparison_chart (src/app.py lines 295-340): one bar per key, in
\* the dict's order.  The bar labels and the layout are not carried.
create_comparison_chart(vol) ==
    LET names == keys(MATERIAL_DENSITIES)
        results == [i \in 1..Len(names) |-> calculate_weight(vol, names[i])]
    IN  IF \E i \in 1..Len(names) :
              \/ results[i].raised # "none"
              \/ ~contains(MATERIAL_COLORS, names[i])
        THEN Raised("KeyError")
        ELSE Returned([x |-> names,
                       y |-> [i \in 1..Len(names) |-> results[i].value],
                       colors |-> [i \in 1..Len(names) |->
                                       getitem(MATERIAL_COLORS, names[i])]])

\* The rows one item of MATERIAL_DENSITIES can add to weight_data
\* (src/app.py lines 466-477): the weight in grams, troy ounces and
\* pennyweight, each formatted to four decimals.
TableRows(material, density, vol) ==
    LET weight_g == calculate_weight(vol, material).value
    IN  { [Material |-> material,
           Density |-> density,
           Weight |-> g,
           Troy |-> t,
           Pennyweight |-> d,
           Info |-> getitem(MATERIAL_INFO, material)] :
          g \in FormatChoices(weight_g, 6),
          t \in FormatChoices(weight_g * 10000, 6 * TROY_OUNCE),
          d \in FormatChoices(weight_g * 50000, 3 * PENNYWEIGHT) }

RECURSIVE WeightTables(_, _, _)
\* The tables the loop over the first n items can build
\* (src/app.py lines 464-477).
WeightTables(items, vol, n) ==
    IF n = 0 THEN { <<>> }
    ELSE { Append(t, row) :
             t \in WeightTables(items, vol, n - 1),
             row \in TableRows(items[n].key, items[n].value, vol) }

\* The loop raises KeyError on a material missing from a dict it subscripts.
WeightTableRaises(items, vol) ==
    \E i \in 1..Len(items) :
        \/ calculate_weight(vol, items[i].key).raised # "none"
        \/ ~contains(MATERIAL_INFO, items[i].key)

(***************************************************************************)
(* Uploaded files.  mesh.Mesh.from_file is numpy-stl's: it raises on a     *)
(* file it cannot read and otherwise returns the file's facets, however    *)
(* few.                                                                    *)
(***************************************************************************)
NoFile == [present |-> FALSE, wellformed |-> FALSE, facets |-> <<>>]

UploadMeshes ==
    { <<>>,
      Tetra(Origin, <<1, 0, 0>>, <<0, 1, 0>>, <<0, 0, 1>>),
      Without(Cube(Origin, 1), 12) }
    \cup { Cube(Origin, e) : e \in 1..MaxUploadEdge }

\* A file that is not well formed still holds the facets read before the
\* fault.
UploadFiles ==
    { [present |-> TRUE, wellformed |-> ok, facets |-> m] :
        ok \in BOOLEAN, m \in UploadMeshes }

\* from_file keeping the facets read before the fault.
from_file_partial(file) == Returned(file.facets)

\* mesh.Mesh.from_file(tmp_path) (src/app.py line 420).
from_file(file) ==
    IF file.wellformed THEN Returned(file.facets) ELSE Raised("Exception")

(***************************************************************************)
(* main() (src/app.py lines 343-592), one script run after another.        *)
(***************************************************************************)
NoStats ==
    [num_triangles |-> 0, min_coords |-> Origin, max_coords |-> Origin,
     dimensions |-> Origin]

NoCalc ==
    [material |-> "", volume |-> 0, weight |-> 0, grams |-> 0, troy |-> 0,
     dwt |-> 0]

\* What an upload's analysis puts on the page.
ResultItems ==
    {"viewer", "statistics", "weight_table", "comparison_chart", "calculator"}

PIdle ==
    /\ pc = "idle"
    /\ selected_material = "18K Gold"
    /\ show_comparison = TRUE
    /\ uploaded_file = NoFile
    /\ tmp_path = "none"
    /\ unlinks = 0
    /\ stl_mesh = <<>>
    /\ volume = 0
    /\ stats = NoStats
    /\ weight_data = <<>>
    /\ materials = <<>>
    /\ weights = <<>>
    /\ calc = NoCalc
    /\ error = "none"
    /\ assigned = {}
    /\ rendered = {}

WIdle ==
    /\ w_volume = 0
    /\ w_material = ""
    /\ w_result = Raised("not called")

GIdle ==
    /\ g_mesh = <<>>
    /\ g_before = <<>>
    /\ g_vol = 0
    /\ g_volBefore = 0
    /\ g_op = "input"
    /\ g_closed = FALSE

\* The widgets are read (lines 359-409) and, with a file uploaded, its bytes
\* are written to a temporary file (lines 411-415); without one the hint is
\* shown (lines 524-552).
StartRun ==
    /\ pc = "idle"
    /\ \E m \in { MATERIAL_DENSITIES[i].key : i \in 1..Len(MATERIAL_DENSITIES) },
          c \in BOOLEAN, f \in UploadFiles \cup {NoFile} :
          /\ selected_material' = m
          /\ show_comparison' = c
          /\ uploaded_file' = f
          /\ IF f.present
             THEN /\ tmp_path' = "exists"
                  /\ pc' = "load"
                  /\ rendered' = {"sidebar"}
             ELSE /\ tmp_path' = "none"
                  /\ pc' = "reference"
                  /\ rendered' = {"sidebar", "upload_hint"}
    /\ UNCHANGED <<unlinks, stl_mesh, volume, stats, weight_data, materials,
                   weights, calc, error, assigned>>
    /\ UNCHANGED <<MATERIAL_DENSITIES, gvars, wvars>>

\* stl_mesh = mesh.Mesh.from_file(tmp_path) (lines 419-420).
LoadMesh ==
    /\ pc = "load"
    /\ LET r == from_file(uploaded_file)
       IN  IF r.raised # "none"
           THEN /\ error' = r.raised
                /\ pc' = "except"
                /\ UNCHANGED <<stl_mesh, assigned>>
           ELSE /\ stl_mesh' = r.value
                /\ assigned' = assigned \cup {"stl_mesh"}
                /\ pc' = "volume"
                /\ UNCHANGED error
    /\ UNCHANGED <<selected_material, show_comparison, uploaded_file,
                   tmp_path, unlinks, volume, stats, weight_data, materials,
                   weights, calc, rendered>>
    /\ UNCHANGED <<MATERIAL_DENSITIES, gvars, wvars>>

\* volume = calculate_stl_volume(stl_mesh) (lines 423-424).
CalculateVolume ==
    /\ pc = "volume"
    /\ volume' = calculate_stl_volume(stl_mesh)
    /\ assigned' = assigned \cup {"volume"}
    /\ pc' = "viewer"
    /\ UNCHANGED <<selected_material, show_comparison, uploaded_file,
                   tmp_path, unlinks, stl_mesh, stats, weight_data, materials,
                   weights, calc, error, rendered>>
    /\ UNCHANGED <<MATERIAL_DENSITIES, gvars, wvars>>

\* fig_3d, stats = create_3d_viewer(...); st.plotly_chart(fig_3d)
\* (lines 427-435).
CreateViewer ==
    /\ pc = "viewer"
    /\ LET r == create_3d_viewer(stl_mesh, volume, "model.stl", selected_material)
       IN  IF r.raised # "none"
           THEN /\ error' = r.raised
                /\ pc' = "except"
                /\ UNCHANGED <<stats, assigned, rendered>>
           ELSE /\ stats' = r.value.stats
                /\ assigned' = assigned \cup {"fig_3d", "stats"}
                /\ rendered' = rendered \cup {"viewer"}
                /\ pc' = "statistics"
                /\ UNCHANGED error
    /\ UNCHANGED <<selected_material, show_comparison, uploaded_file,
                   tmp_path, unlinks, stl_mesh, volume, weight_data,
                   materials, weights, calc>>
    /\ UNCHANGED <<MATERIAL_DENSITIES, gvars, wvars>>

\* The "Model Statistics" expander (lines 438-453).
ShowStatistics ==
    /\ pc = "statistics"
    /\ rendered' = rendered \cup {"statistics"}
    /\ pc' = "table"
    /\ UNCHANGED <<selected_material, show_comparison, uploaded_file,
                   tmp_path, unlinks, stl_mesh, volume, stats, weight_data,
                   materials, weights, calc, error, assigned>>
    /\ UNCHANGED <<MATERIAL_DENSITIES, gvars, wvars>>

\* The detailed table updating the dict it iterates over.
WeightTable_writing ==
    /\ pc = "table"
    /\ \E t \in WeightTables(MATERIAL_DENSITIES, volume, Len(MATERIAL_DENSITIES)) :
          weight_data' = t
    /\ MATERIAL_DENSITIES' =
          [MATERIAL_DENSITIES EXCEPT ![1].value = volume * MATERIAL_DENSITIES[1].value]
    /\ assigned' = assigned \cup {"weight_data"}
    /\ rendered' = rendered \cup {"weight_table"}
    /\ pc' = "chart"
    /\ UNCHANGED <<selected_material, show_comparison, uploaded_file,
                   tmp_path, unlinks, stl_mesh, volume, stats, materials,
                   weights, calc, error>>
    /\ UNCHANGED <<gvars, wvars>>

\* Tab 1, the detailed table (lines 462-481).
WeightTable ==
    /\ pc = "table"
    /\ IF WeightTableRaises(MATERIAL_DENSITIES, volume)
       THEN /\ error' = "KeyError"
            /\ pc' = "except"
            /\ UNCHANGED <<weight_data, assigned, rendered>>
       ELSE /\ \E t \in WeightTables(MATERIAL_DENSITIES, volume,
                                     Len(MATERIAL_DENSITIES)) :
                  weight_data' = t
            /\ assigned' = assigned \cup {"weight_data"}
            /\ rendered' = rendered \cup {"weight_table"}
            /\ pc' = "chart"
            /\ UNCHANGED error
    /\ UNCHANGED <<selected_material, show_comparison, uploaded_file,
                   tmp_path, unlinks, stl_mesh, volume, stats, materials,
                   weights, calc>>
    /\ UNCHANGED <<MATERIAL_DENSITIES, gvars, wvars>>

\* Tab 2, the comparison chart (lines 483-486).
ComparisonChart ==
    /\ pc = "chart"
    /\ IF show_comparison
       THEN LET r == create_comparison_chart(volume)
            IN  IF r.raised # "none"
                THEN /\ error' = r.raised
                     /\ pc' = "except"
                     /\ UNCHANGED <<materials, weights, assigned, rendered>>
                ELSE /\ materials' = r.value.x
                     /\ weights' = r.value.y
                     /\ assigned' = assigned \cup {"fig_comparison"}
                     /\ rendered' = rendered \cup {"comparison_chart"}
                     /\ pc' = "calculator"
                     /\ UNCHANGED error
       ELSE /\ pc' = "calculator"
            /\ UNCHANGED <<materials, weights, assigned, rendered, error>>
    /\ UNCHANGED <<selected_material, show_comparison, uploaded_file,
                   tmp_path, unlinks, stl_mesh, volume, stats, weight_data,
                   calc>>
    /\ UNCHANGED <<MATERIAL_DENSITIES, gvars, wvars>>

\* Tab 3, the quick calculator (lines 488-515): the material is one of the
\* keys, the volume the file's or any typed value >= 0.0.
Calculator ==
    /\ pc = "calculator"
    /\ \E calc_material \in { MATERIAL_DENSITIES[i].key :
                                i \in 1..Len(MATERIAL_DENSITIES) },
          calc_volume \in {volume} \cup 0..MaxCalcVolume :
          LET r == calculate_weight(calc_volume, calc_material)
          IN  IF r.raised # "none"
              THEN /\ error' = r.raised
                   /\ pc' = "except"
                   /\ UNCHANGED <<calc, assigned, rendered>>
              ELSE /\ \E g \in FormatChoices(r.value, 6),
                         t \in FormatChoices(r.value * 10000, 6 * TROY_OUNCE),
                         d \in FormatChoices(r.value * 50000, 3 * PENNYWEIGHT) :
                         calc' = [material |-> calc_material,
                                  volume |-> calc_volume,
                                  weight |-> r.value,
                                  grams |-> g, troy |-> t, dwt |-> d]
                   /\ assigned' = assigned \cup {"calc_weight"}
                   /\ rendered' = rendered \cup {"calculator"}
                   /\ pc' = "cleanup"
                   /\ UNCHANGED error
    /\ UNCHANGED <<selected_material, show_comparison, uploaded_file,
                   tmp_path, unlinks, stl_mesh, volume, stats, weight_data,
                   materials, weights>>
    /\ UNCHANGED <<MATERIAL_DENSITIES, gvars, wvars>>

\* os.unlink(tmp_path) at the end of the try block (line 518).
Cleanup ==
    /\ pc = "cleanup"
    /\ tmp_path' = "deleted"
    /\ unlinks' = unlinks + 1
    /\ pc' = "reference"
    /\ UNCHANGED <<selected_material, show_comparison, uploaded_file,
                   stl_mesh, volume, stats, weight_data, materials, weights,
                   calc, error, assigned, rendered>>
    /\ UNCHANGED <<MATERIAL_DENSITIES, gvars, wvars>>

\* except Exception as e: st.error(...); os.unlink(tmp_path) (lines 520-522).
HandleError ==
    /\ pc = "except"
    /\ rendered' = rendered \cup {"error"}
    /\ tmp_path' = "deleted"
    /\ unlinks' = unlinks + 1
    /\ pc' = "reference"
    /\ UNCHANGED <<selected_material, show_comparison, uploaded_file,
                   stl_mesh, volume, stats, weight_data, materials, weights,
                   calc, error, assigned>>
    /\ UNCHANGED <<MATERIAL_DENSITIES, gvars, wvars>>

\* The steps of the try block's body that call Streamlit (lines 419-515).
TrySteps ==
    {"load", "volume", "viewer", "statistics", "table", "chart", "calculator"}

\* A step of the try block raises an exception that is not an Exception:
\* KeyboardInterrupt, or the StopException / RerunException (BaseException
\* subclasses) that Streamlit raises inside an st.* call when the user stops
\* the script or changes a widget while it runs.  "except Exception" (line
\* 520) does not catch it: neither os.unlink is reached and the script run
\* ends there.
Interrupt ==
    /\ pc \in TrySteps
    /\ pc' = "interrupted"
    /\ UNCHANGED <<selected_material, show_comparison, uploaded_file,
                   tmp_path, unlinks, stl_mesh, volume, stats, weight_data,
                   materials, weights, calc, error, assigned, rendered>>
    /\ UNCHANGED <<MATERIAL_DENSITIES, gvars, wvars>>

\* The second column, the material reference card (lines 554-592); the
\* script run ends.
MaterialReference ==
    /\ pc = "reference"
    /\ rendered' = rendered \cup {"reference"}
    /\ pc' = "done"
    /\ UNCHANGED <<selected_material, show_comparison, uploaded_file,
                   tmp_path, unlinks, stl_mesh, volume, stats, weight_data,
                   materials, weights, calc, error, assigned>>
    /\ UNCHANGED <<MATERIAL_DENSITIES, gvars, wvars>>

\* Streamlit runs the script again from the top: the page and main()'s
\* locals start afresh (line 595).
Rerun ==
    /\ pc \in {"done", "interrupted"}
    /\ pc' = "idle"
    /\ selected_material' = "18K Gold"
    /\ show_comparison' = TRUE
    /\ uploaded_file' = NoFile
    /\ tmp_path' = "none"
    /\ unlinks' = 0
    /\ stl_mesh' = <<>>
    /\ volume' = 0
    /\ stats' = NoStats
    /\ weight_data' = <<>>
    /\ materials' = <<>>
    /\ weights' = <<>>
    /\ calc' = NoCalc
    /\ error' = "none"
    /\ assigned' = {}
    /\ rendered' = {}
    /\ UNCHANGED <<MATERIAL_DENSITIES, gvars, wvars>>

Init ==
    /\ MATERIAL_DENSITIES = StartupDensities
    /\ PIdle
    /\ WIdle
    /\ GIdle

Next ==
    \/ StartRun
    \/ LoadMesh
    \/ CalculateVolume
    \/ CreateViewer
    \/ ShowStatistics
    \/ WeightTable
    \/ ComparisonChart
    \/ Calculator
    \/ Cleanup
    \/ HandleError
    \/ Interrupt
    \/ MaterialReference
    \/ Rerun

Spec == Init /\ [][Next]_vars

(***************************************************************************)
(* The weight harness: calculate_weight called on any volume and any       *)
(* material name.                                                          *)
(***************************************************************************)
TestVolumes == (0 - MaxTestVolume)..MaxTestVolume

TestMaterials ==
    { StartupDensities[i].key : i \in 1..Len(StartupDensities) }
    \cup {"NotARealMaterial"}

WInit ==
    /\ MATERIAL_DENSITIES = StartupDensities
    /\ WIdle
    /\ PIdle
    /\ GIdle

CallWeight ==
    /\ \E v \in TestVolumes, m \in TestMaterials :
          /\ w_volume' = v
          /\ w_material' = m
          /\ w_result' = calculate_weight(v, m)
    /\ UNCHANGED <<MATERIAL_DENSITIES, gvars, pvars>>

WNext == CallWeight

SpecWeight == WInit /\ [][WNext]_vars

(***************************************************************************)
(* Claims about calculate_weight, checked under SpecWeight.                *)
(***************************************************************************)
Called == w_result.raised # "not called"

\* C1: for a registered material and a volume >= 0, calculate_weight returns
\* exactly volume * MATERIAL_DENSITIES[material], nothing else applied.
C1_WeightIsVolumeTimesDensity ==
    (Called /\ w_volume >= 0 /\ contains(MATERIAL_DENSITIES, w_material))
        => w_result = Returned(w_volume * getitem(MATERIAL_DENSITIES, w_material))

\* 1 mm^3 of 18K Gold weighs 0.0154 g.
C1_Witness ==
    /\ w_volume = 6
    /\ w_material = "18K Gold"
    /\ w_result = Returned(924)

\* C4: calculate_weight called with a negative volume fails with
\* InvalidVolume and never returns a number.
C4_NegativeVolumeRejected ==
    (Called /\ w_volume < 0 /\ contains(MATERIAL_DENSITIES, w_material))
        => w_result.raised = "InvalidVolume"

\* C5: calculate_weight for a name that is not a key of MATERIAL_DENSITIES
\* fails with an error and yields no weight from a substituted density.
C5_UnknownMaterialFails ==
    (Called /\ ~contains(MATERIAL_DENSITIES, w_material))
        => w_result = Raised("KeyError")

\* A call with an unknown name and a volume that a default density would
\* turn into a weight.
C5_Witness ==
    /\ w_material = "NotARealMaterial"
    /\ w_volume > 0
    /\ w_result.raised = "KeyError"

(***************************************************************************)
(* Claims about main(), checked under Spec.                                *)
(***************************************************************************)
ZeroFacetUpload ==
    /\ uploaded_file.present
    /\ uploaded_file.wellformed
    /\ Len(uploaded_file.facets) = 0

FailedLoad == uploaded_file.present /\ ~uploaded_file.wellformed

\* The chart's bars: one per key, in the dict's order, each volume * density.
ChartMatchesRegistry ==
    "fig_comparison" \in assigned =>
        /\ materials = keys(MATERIAL_DENSITIES)
        /\ Len(weights) = Len(MATERIAL_DENSITIES)
        /\ \A i \in 1..Len(MATERIAL_DENSITIES) :
              weights[i] = volume * MATERIAL_DENSITIES[i].value

\* C6 as stated: the chart's weights and the table's rows hold one entry per
\* key of MATERIAL_DENSITIES, in its order, each entry's grams equal to
\* volume * density.  A row prints g units of 0.0001 g and the product counts
\* units of 1/60000 g: they are the same number when 6 * g is the product.
C6_ComparisonHoldsProducts ==
    /\ ChartMatchesRegistry
    /\ "weight_data" \in assigned =>
          /\ Len(weight_data) = Len(MATERIAL_DENSITIES)
          /\ \A i \in 1..Len(MATERIAL_DENSITIES) :
                /\ weight_data[i].Material = MATERIAL_DENSITIES[i].key
                /\ 6 * weight_data[i].Weight = volume * MATERIAL_DENSITIES[i].value

\* C6 as amended: as stated for the chart's weights; a row of the table holds
\* volume * density formatted to four decimal places.
C6_ComparisonHoldsFormattedProducts ==
    /\ ChartMatchesRegistry
    /\ "weight_data" \in assigned =>
          /\ Len(weight_data) = Len(MATERIAL_DENSITIES)
          /\ \A i \in 1..Len(MATERIAL_DENSITIES) :
                /\ weight_data[i].Material = MATERIAL_DENSITIES[i].key
                /\ weight_data[i].Weight
                     \in FormatChoices(volume * MATERIAL_DENSITIES[i].value, 6)

\* Chart and table built for a volume of 1/6 mm^3, whose 14K Gold weight
\* 0.00218... g prints as 0.0022.
C6_Witness ==
    /\ pc = "done"
    /\ {"weight_data", "fig_comparison"} \subseteq assigned
    /\ volume = 1
    /\ weights[1] = 131
    /\ weight_data[1].Weight = 22

\* C7: a file with zero facets is never accepted as a parsed mesh, and no
\* volume is computed or reported for it.
C7_ZeroFacetFileRejected ==
    ZeroFacetUpload => ("stl_mesh" \notin assigned /\ "volume" \notin assigned)

\* C9: MATERIAL_DENSITIES holds its startup keys and values, all of them
\* strictly positive, whatever the application has done.
C9_RegistryFixed ==
    /\ MATERIAL_DENSITIES = StartupDensities
    /\ \A i \in 1..Len(MATERIAL_DENSITIES) : MATERIAL_DENSITIES[i].value > 0

\* A run that selected another material and showed every result.
C9_Witness ==
    /\ pc = "done"
    /\ selected_material = "Palladium"
    /\ ResultItems \subseteq rendered
    /\ calc.material = "Silver (925)"

\* C10: when from_file raises, the run reports the error and renders no
\* result of the upload; no local of the analysis is bound.
C10_FailedLoadLeavesNoResult ==
    FailedLoad =>
        /\ rendered \cap ResultItems = {}
        /\ assigned = {}
        /\ pc \in {"reference", "done"} => (error # "none" /\ "error" \in rendered)

\* A run that ended after from_file raised on a file that holds facets.
C10_Witness ==
    /\ pc = "done"
    /\ FailedLoad
    /\ Len(uploaded_file.facets) > 0
    /\ "error" \in rendered

\* A script run with an upload that has ended, normally or not.
RunEnded == uploaded_file.present /\ pc \in {"done", "interrupted"}

\* C11: on every path through the processing block of a run with an upload,
\* the temporary file is deleted exactly once: when the run has ended the
\* file is off the disk and os.unlink was called once, never twice.
C11_TempFileDeletedExactlyOnce ==
    /\ unlinks <= 1
    /\ RunEnded => (tmp_path = "deleted" /\ unlinks = 1)

(***************************************************************************)
(* The geometry harness: calculate_stl_volume applied to an input mesh and *)
(* to the mesh after a change.  An input solid may lose or flip one        *)
(* triangle, then be translated, then have every triangle reversed.        *)
(***************************************************************************)
Stage(op) ==
    CASE op = "input" -> 0
      [] op \in {"remove", "reverse_one"} -> 1
      [] op = "translate" -> 2
      [] op = "reverse" -> 3

GInit ==
    /\ MATERIAL_DENSITIES = StartupDensities
    /\ g_mesh \in Shapes
    /\ g_before = g_mesh
    /\ g_vol = calculate_stl_volume(g_mesh)
    /\ g_volBefore = g_vol
    /\ g_op = "input"
    /\ g_closed = TRUE
    /\ WIdle
    /\ PIdle

Measure(m, op, closed) ==
    /\ Stage(g_op) < Stage(op)
    /\ g_before' = g_mesh
    /\ g_volBefore' = calculate_stl_volume(g_mesh)
    /\ g_mesh' = m
    /\ g_vol' = calculate_stl_volume(m)
    /\ g_op' = op
    /\ g_closed' = closed
    /\ UNCHANGED <<MATERIAL_DENSITIES, wvars, pvars>>

TranslateMesh ==
    \E t \in Translations : Measure(Translated(g_mesh, t), "translate", g_closed)

ReverseWinding == Measure(Reversed(g_mesh), "reverse", g_closed)

ReverseOne ==
    \E k \in 1..Len(g_mesh) : Measure(ReversedAt(g_mesh, k), "reverse_one", FALSE)

RemoveTriangle ==
    \E k \in 1..Len(g_mesh) : Measure(Without(g_mesh, k), "remove", FALSE)

GNext == TranslateMesh \/ ReverseWinding \/ ReverseOne \/ RemoveTriangle

SpecVolume == GInit /\ [][GNext]_vars

(***************************************************************************)
(* Exactness: no float32 operation of calculate_stl_volume rounds.         *)
(***************************************************************************)
Representable(v) == f32(v) = v

\* The triple product A . (B x C) in exact arithmetic.
Det(A, B, C) ==
    A[1] * (B[2] * C[3] - B[3] * C[2])
    + A[2] * (B[3] * C[1] - B[1] * C[3])
    + A[3] * (B[1] * C[2] - B[2] * C[1])

\* Every product, difference and sum formed for one triangle is a float32.
ExactTriangle(A, B, C) ==
    LET x1 == B[2] * C[3] - B[3] * C[2]
        x2 == B[3] * C[1] - B[1] * C[3]
        x3 == B[1] * C[2] - B[2] * C[1]
    IN  \A v \in { B[2] * C[3], B[3] * C[2], B[3] * C[1], B[1] * C[3],
                   B[1] * C[2], B[2] * C[1], x1, x2, x3,
                   A[1] * x1, A[2] * x2, A[3] * x3,
                   A[1] * x1 + A[2] * x2, Det(A, B, C) } : Representable(v)

RECURSIVE ExactSum(_, _)
ExactSum(m, n) ==
    IF n = 0 THEN 0 ELSE ExactSum(m, n - 1) + Det(m[n][1], m[n][2], m[n][3])

\* Every operation on every triangle, and every running total, is exact.
Exact(m) ==
    \A n \in 1..Len(m) :
        /\ ExactTriangle(m[n][1], m[n][2], m[n][3])
        /\ Representable(ExactSum(m, n))

(***************************************************************************)
(* Claims about calculate_stl_volume, checked under SpecVolume.            *)
(***************************************************************************)

\* C2 as stated: translating every vertex of a closed, consistently wound
\* mesh leaves calculate_stl_volume unchanged.
C2_TranslationInvariant ==
    (g_op = "translate" /\ g_closed) => g_vol = g_volBefore

\* C2 as amended: translating a closed, consistently wound mesh leaves the
\* volume unchanged whenever no float32 operation rounds, before and after.
C2_TranslationInvariantWhenExact ==
    (g_op = "translate" /\ g_closed /\ Exact(g_before) /\ Exact(g_mesh))
        => g_vol = g_volBefore

\* The unit cube moved to (1000, 1000, 1000) still measures 1 mm^3.
C2_Witness ==
    /\ g_op = "translate"
    /\ g_before = Cube(Origin, 1)
    /\ g_mesh = Translated(Cube(Origin, 1), <<ShiftExact, ShiftExact, ShiftExact>>)
    /\ Exact(g_before) /\ Exact(g_mesh)
    /\ g_volBefore = 6 /\ g_vol = 6

\* C3 as stated: reversing the vertex order of every triangle leaves
\* calculate_stl_volume unchanged.
C3_WindingInvariant == g_op = "reverse" => g_vol = g_volBefore

\* C3 as amended: reversing every triangle leaves the volume unchanged
\* whenever no float32 operation rounds, before and after.
C3_WindingInvariantWhenExact ==
    (g_op = "reverse" /\ Exact(g_before) /\ Exact(g_mesh))
        => g_vol = g_volBefore

\* A reversed mesh whose signed sum changed sign and is not zero.
C3_Witness ==
    /\ g_op = "reverse"
    /\ Exact(g_before) /\ Exact(g_mesh)
    /\ volume_sum(g_mesh, Len(g_mesh)) = -volume_sum(g_before, Len(g_before))
    /\ volume_sum(g_mesh, Len(g_mesh)) < 0

====
